---- MODULE Spec2Model ----
(***************************************************************************)
(* Model of ObjectSlice (src/slice.py): SlicingOperation.set_slices,       *)
(* SlicingOperation.slice with its multiprocessing.Pool dispatch of        *)
(* execute_slice, and the run_from_cl driver.                              *)
(*                                                                         *)
(* The program is Python 2 code (range() returns a list whose len() is     *)
(* logged, "/" on two ints is floor division); the model follows the       *)
(* Python 2.7 semantics of range(), "/", string.Template, os and           *)
(* multiprocessing.Pool.map.                                               *)
(*                                                                         *)
(* Strings are sequences of string fragments; an optional argument is      *)
(* <<>> (None) or <<v>>.                                                   *)
(***************************************************************************)
EXTENDS Integers, Sequences, FiniteSets, TLC

(***************************************************************************)
(* Bounds of the model.                                                    *)
(***************************************************************************)
MaxVal == 2
MaxProcs == 2
MaxEnd == 4
MaxCalls == 2

(***************************************************************************)
(* Python values.                                                          *)
(***************************************************************************)
None == <<>>

Some(v) == <<v>>

NoError == "NoError"

\* a division that rounds up instead of down
PyCeilDiv(a, b) ==
  IF b > 0 THEN (a \div b) + (IF a % b # 0 THEN 1 ELSE 0)
  ELSE ((0 - a) \div (0 - b)) + (IF (0 - a) % (0 - b) # 0 THEN 1 ELSE 0)

\* Python 2 "/" on two ints: floor division (b # 0).
PyFloorDiv(a, b) == IF b > 0 THEN a \div b ELSE (0 - a) \div (0 - b)

RECURSIVE PyRange(_, _, _)
\* Python 2 range(start, stop, step) as a list, step # 0.
PyRange(start, stop, step) ==
  IF step > 0
  THEN IF start < stop THEN <<start>> \o PyRange(start + step, stop, step) ELSE <<>>
  ELSE IF start > stop THEN <<start>> \o PyRange(start + step, stop, step) ELSE <<>>

RECURSIVE NatToStr(_)
\* decimal digits of n >= 0, as str.format / Template.substitute print an int
NatToStr(n) ==
  LET d == <<"0", "1", "2", "3", "4", "5", "6", "7", "8", "9">>
  IN IF n < 10 THEN <<d[n + 1]>> ELSE NatToStr(n \div 10) \o <<d[(n % 10) + 1]>>

IntToStr(n) == IF n < 0 THEN <<"-">> \o NatToStr(0 - n) ELSE NatToStr(n)

RECURSIVE Join(_, _)
\* sep.join(strs) for a list of strings
Join(sep, strs) ==
  IF Len(strs) = 0 THEN <<>>
  ELSE IF Len(strs) = 1 THEN strs[1]
  ELSE strs[1] \o sep \o Join(sep, Tail(strs))

(***************************************************************************)
(* set_slices (src/slice.py:95-116).  floats says that start or end is a   *)
(* Python float (the argparse defaults 0.0 and 100.0 of run_from_cl):      *)
(* range() of Python 2.7 rejects a float argument with TypeError.          *)
(* The result is the exception raised (NoError when the call returns) and  *)
(* the value of self._slices after the call.                               *)
(***************************************************************************)
\* set_slices with range(start, end, ...): the upper bound left out
set_slices_exclusive(old, start, end, step, num, floats) ==
  IF step = None
  THEN IF num = None
       THEN [exc |-> "TypeError", slices |-> old]
       ELSE IF num[1] = 0
            THEN [exc |-> "ZeroDivisionError", slices |-> old]
            ELSE IF floats
                 THEN [exc |-> "TypeError", slices |-> old]
                 ELSE LET s == PyFloorDiv(end - start, num[1])
                      IN IF s = 0
                         THEN [exc |-> "ValueError", slices |-> old]
                         ELSE [exc |-> NoError, slices |-> PyRange(start, end, s)]
  ELSE IF num = None
       THEN IF floats
            THEN [exc |-> "TypeError", slices |-> old]
            ELSE IF step[1] = 0
                 THEN [exc |-> "ValueError", slices |-> old]
                 ELSE [exc |-> NoError, slices |-> PyRange(start, end, step[1])]
       ELSE [exc |-> "RuntimeError", slices |-> old]

\* set_slices that tests step first and never reaches the final else
set_slices_lenient(old, start, end, step, num, floats) ==
  IF step # None
  THEN IF floats
       THEN [exc |-> "TypeError", slices |-> old]
       ELSE IF step[1] = 0
            THEN [exc |-> "ValueError", slices |-> old]
            ELSE [exc |-> NoError, slices |-> PyRange(start, end + 1, step[1])]
  ELSE IF num = None
       THEN [exc |-> "TypeError", slices |-> old]
       ELSE IF num[1] = 0
            THEN [exc |-> "ZeroDivisionError", slices |-> old]
            ELSE IF floats
                 THEN [exc |-> "TypeError", slices |-> old]
                 ELSE LET s == PyFloorDiv(end - start, num[1])
                      IN IF s = 0
                         THEN [exc |-> "ValueError", slices |-> old]
                         ELSE [exc |-> NoError, slices |-> PyRange(start, end + 1, s)]

\* set_slices that extends the stored list instead of replacing it
set_slices_appending(old, start, end, step, num, floats) ==
  IF step = None
  THEN IF num = None
       THEN [exc |-> "TypeError", slices |-> old]
       ELSE IF num[1] = 0
            THEN [exc |-> "ZeroDivisionError", slices |-> old]
            ELSE IF floats
                 THEN [exc |-> "TypeError", slices |-> old]
                 ELSE LET s == PyFloorDiv(end - start, num[1])
                      IN IF s = 0
                         THEN [exc |-> "ValueError", slices |-> old]
                         ELSE [exc |-> NoError,
                               slices |-> old \o PyRange(start, end + 1, s)]
  ELSE IF num = None
       THEN IF floats
            THEN [exc |-> "TypeError", slices |-> old]
            ELSE IF step[1] = 0
                 THEN [exc |-> "ValueError", slices |-> old]
                 ELSE [exc |-> NoError,
                       slices |-> old \o PyRange(start, end + 1, step[1])]
       ELSE [exc |-> "RuntimeError", slices |-> old]

set_slices_result(old, start, end, step, num, floats) ==
  IF step = None
  THEN IF num = None
       THEN [exc |-> "TypeError", slices |-> old]
       ELSE IF num[1] = 0
            THEN [exc |-> "ZeroDivisionError", slices |-> old]
            ELSE IF floats
                 THEN [exc |-> "TypeError", slices |-> old]
                 ELSE LET s == PyFloorDiv(end - start, num[1])
                      IN IF s = 0
                         THEN [exc |-> "ValueError", slices |-> old]
                         ELSE [exc |-> NoError, slices |-> PyRange(start, end + 1, s)]
  ELSE IF num = None
       THEN IF floats
            THEN [exc |-> "TypeError", slices |-> old]
            ELSE IF step[1] = 0
                 THEN [exc |-> "ValueError", slices |-> old]
                 ELSE [exc |-> NoError, slices |-> PyRange(start, end + 1, step[1])]
       ELSE [exc |-> "RuntimeError", slices |-> old]

(***************************************************************************)
(* State.                                                                  *)
(***************************************************************************)
VARIABLES
  driver,               \* "api": a script calls the methods; "cli": run_from_cl
  pc,                   \* position of the caller / of slice()
  exc,                  \* last exception raised to the caller (NoError if none)
  ncalls,               \* number of set_slices calls made
  call,                 \* arguments and outcome of the last set_slices call
  props,                \* run_from_cl: the parsed options step and number
  scad_includes,        \* self.scad_includes
  scad_object_modules,  \* self.scad_object_modules
  scad_key_modules,     \* self.scad_key_modules
  keep_scad_file,       \* self.keep_scad_file
  _out_format,          \* self._out_format
  _processes,           \* self._processes
  _slices,              \* self._slices
  dirs,                 \* file system: the directories that exist
  scad_file,            \* file system: contents of the file scad_filename
  out_files,            \* file system: output files written by renderers
  jobs,                 \* slice(): the list jobs
  job_state,            \* per job: pending, running, success, failed, launch_failed
  invoked,              \* per job: the command lines given to check_call
  taskqueue,            \* Pool: chunks of job indexes not yet taken by a worker
  worker,               \* Pool: the chunks the busy worker processes hold
  pool_size,            \* Pool: the number of worker processes
  pool_state,           \* Pool: none, run, terminated
  map_result            \* Pool.map: state of the MapResult, chunks left, values

vars == <<driver, pc, exc, ncalls, call, props, scad_includes, scad_object_modules,
          scad_key_modules, keep_scad_file, _out_format, _processes, _slices,
          dirs, scad_file, out_files, jobs, job_state, invoked, taskqueue,
          worker, pool_size, pool_state, map_result>>

cfg_vars == <<scad_includes, scad_object_modules, scad_key_modules, keep_scad_file>>

fs_vars == <<dirs, scad_file, out_files>>

pool_vars == <<jobs, job_state, invoked, taskqueue, worker, pool_size, pool_state,
               map_result>>

(***************************************************************************)
(* Inputs.                                                                 *)
(***************************************************************************)
scad_filename == <<"object_slice.scad">>

_openscad_command == <<"openscad">>

HeightToken == "$height"

EscapeToken == "$$"

UnknownToken == "$name"

\* an output format: its directory part (os.path.dirname) and its file part
Patterns ==
  { [dir |-> <<"out", "dxf">>, name |-> <<"slice_", HeightToken, ".dxf">>],
    [dir |-> <<"out", "dxf">>, name |-> <<"slice", EscapeToken, ".dxf">>],
    [dir |-> <<>>,             name |-> <<"slice_", HeightToken, ".dxf">>],
    [dir |-> <<"out">>,        name |-> <<UnknownToken, "_", HeightToken, ".dxf">>] }

\* module lists given to the operation: includes, object modules, key modules
ModuleConfigs ==
  { [inc |-> << <<"lib.scad">> >>, obj |-> << <<"block()">>, <<"cube()">> >>,
     key |-> << <<"key()">> >>],
    [inc |-> <<>>, obj |-> <<>>, key |-> <<>>] }

\* a stale template left by an earlier run
StaleContents == <<"stale">>

NoFile == <<>>

NoMap == [state |-> "none", number_left |-> 0, value |-> <<>>]

NoCall == [start |-> 0, end |-> 0, step |-> None, num |-> None,
           floats |-> FALSE, raised |-> NoError, made |-> FALSE]

NoProps == [step |-> None, number |-> None, parsed |-> FALSE]

OptVals(S) == {None} \cup {Some(v) : v \in S}

\* arguments of set_slices explored for the height arithmetic
StartVals == (0 - 1) .. 1

EndVals == (0 - 1) .. MaxVal

StepVals == (0 - 1) .. 2

\* arguments of set_slices explored ahead of a dispatch
DispatchEnds == {0, MaxEnd, 10}

\* --end on the command lines that are dispatched
ClEnds == {0, 10}

\* the longest height sequence that is dispatched
MaxJobs == MaxEnd + 1

DispatchSteps == {None, Some(1), Some(5)}

DispatchNums == {None, Some(2)}

(***************************************************************************)
(* Initial state: a SlicingOperation just constructed (src/slice.py:69-92) *)
(* on some file system.                                                    *)
(***************************************************************************)
Init ==
  /\ driver \in {"api", "cli"}
  /\ pc = "new"
  /\ exc = NoError
  /\ ncalls = 0
  /\ call = NoCall
  /\ props = NoProps
  /\ scad_includes = <<>>
  /\ scad_object_modules = <<>>
  /\ scad_key_modules = <<>>
  /\ keep_scad_file = FALSE
  /\ _out_format \in Patterns
  /\ _processes \in 1 .. MaxProcs
  /\ _slices = <<>>
  /\ dirs \in {{}, {<<"out">>}, {<<"out">>, <<"out", "dxf">>}}
  /\ scad_file \in {NoFile, StaleContents}
  /\ out_files = {}
  /\ jobs = <<>>
  /\ job_state = <<>>
  /\ invoked = <<>>
  /\ taskqueue = <<>>
  /\ worker = {}
  /\ pool_size = 0
  /\ pool_state = "none"
  /\ map_result = NoMap

(***************************************************************************)
(* set_slices called by a script (src/slice.py:95-116).  An exception is   *)
(* raised to the script, which may go on using the object.                 *)
(***************************************************************************)
set_slices(start, end, step, num, floats) ==
  LET r == set_slices_result(_slices, start, end, step, num, floats)
  IN /\ driver = "api"
     /\ pc = "config"
     /\ ncalls < MaxCalls
     /\ _slices' = r.slices
     /\ exc' = r.exc
     /\ ncalls' = ncalls + 1
     /\ call' = [start |-> start, end |-> end, step |-> step, num |-> num,
                 floats |-> floats, raised |-> r.exc, made |-> TRUE]
     /\ UNCHANGED <<driver, pc, props, cfg_vars, _out_format, _processes, fs_vars,
                    pool_vars>>

\* the script assigns the public attributes (src/slice.py:81-84), or leaves
\* them at their defaults (no include, no module, keep_scad_file False)
set_attributes(mc, keep) ==
  /\ driver = "api"
  /\ pc = "new"
  /\ pc' = "config"
  /\ scad_includes' = mc.inc
  /\ scad_object_modules' = mc.obj
  /\ scad_key_modules' = mc.key
  /\ keep_scad_file' = keep
  /\ UNCHANGED <<driver, exc, ncalls, call, props, _out_format, _processes,
                 _slices, fs_vars, pool_vars>>

(***************************************************************************)
(* run_from_cl (src/slice.py:295-315): the check of object_module, the     *)
(* configuration of the operation and the choice of the set_slices call.   *)
(* props.start and props.end are ints when given on the command line and   *)
(* the float defaults otherwise (floats).  An exception ends the program.  *)
(***************************************************************************)
run_from_cl(object_module, key_module, include, keep, start, end, step, number, floats) ==
  /\ driver = "cli"
  /\ pc = "new"
  /\ props' = [step |-> step, number |-> number, parsed |-> TRUE]
  /\ IF object_module = None
     THEN \* sys is not imported: sys.out raises NameError
          /\ pc' = "raised"
          /\ exc' = "NameError"
          /\ UNCHANGED <<ncalls, call, cfg_vars, _slices>>
     ELSE /\ scad_object_modules' = object_module[1]
          /\ scad_key_modules' = (IF key_module # None THEN key_module[1] ELSE <<>>)
          /\ scad_includes' = (IF include # None THEN include[1] ELSE <<>>)
          /\ keep_scad_file' = keep
          /\ IF step # None /\ step[1] # 0
             THEN LET r == set_slices_result(_slices, start, end, step, None, floats)
                  IN /\ _slices' = r.slices
                     /\ exc' = r.exc
                     /\ ncalls' = ncalls + 1
                     /\ call' = [start |-> start, end |-> end, step |-> step,
                                 num |-> None, floats |-> floats,
                                 raised |-> r.exc, made |-> TRUE]
                     /\ pc' = (IF r.exc = NoError THEN "make_output_dir" ELSE "raised")
             ELSE IF number # None /\ number[1] # 0
             THEN LET r == set_slices_result(_slices, start, end, None, number, floats)
                  IN /\ _slices' = r.slices
                     /\ exc' = r.exc
                     /\ ncalls' = ncalls + 1
                     /\ call' = [start |-> start, end |-> end, step |-> None,
                                 num |-> number, floats |-> floats,
                                 raised |-> r.exc, made |-> TRUE]
                     /\ pc' = (IF r.exc = NoError THEN "make_output_dir" ELSE "raised")
             ELSE /\ pc' = "make_output_dir"
                  /\ UNCHANGED <<exc, ncalls, call, _slices>>
  /\ UNCHANGED <<driver, _out_format, _processes, fs_vars, pool_vars>>

(***************************************************************************)
(* slice() (src/slice.py:119-135), step by step.                           *)
(***************************************************************************)
\* the script calls slice()
slice ==
  /\ driver = "api"
  /\ pc = "config"
  /\ pc' = "make_output_dir"
  /\ UNCHANGED <<driver, exc, ncalls, call, props, cfg_vars, _out_format, _processes,
                 _slices, fs_vars, pool_vars>>

\* the directories os.makedirs(d) has to create, outermost first
Prefixes(d) == [k \in 1 .. Len(d) |-> SubSeq(d, 1, k)]

\* _make_output_dir (src/slice.py:138-145).  os.path.exists("") is False and
\* os.makedirs("") raises; created says how many of the directories makedirs
\* creates before the file system refuses one (Len(out_dir): none refused).
_make_output_dir(created) ==
  LET out_dir == _out_format.dir
  IN /\ pc = "make_output_dir"
     /\ IF out_dir \in dirs
        THEN /\ created = 0
             /\ pc' = "make_slice_file"
             /\ UNCHANGED <<exc, dirs>>
        ELSE IF out_dir = <<>>
        THEN /\ created = 0
             /\ pc' = "raised"
             /\ exc' = "OSError"
             /\ UNCHANGED dirs
        ELSE /\ created \in 0 .. Len(out_dir)
             /\ \A k \in 1 .. Len(out_dir) :
                  Prefixes(out_dir)[k] \in dirs => k <= created
             /\ dirs' = dirs \cup {Prefixes(out_dir)[k] : k \in 1 .. created}
             /\ IF created = Len(out_dir)
                THEN pc' = "make_slice_file" /\ UNCHANGED exc
                ELSE pc' = "raised" /\ exc' = "OSError"
     /\ UNCHANGED <<driver, ncalls, call, props, cfg_vars, _out_format, _processes,
                    _slices, scad_file, out_files, pool_vars>>

\* the text _make_slice_file composes (src/slice.py:14-33, 152-159)
Contents(includes, object_modules, key_modules) ==
  LET import_str == Join(<<"\n">>, [k \in 1 .. Len(includes) |->
                                      <<"include <">> \o includes[k] \o <<">;">>])
      object_str == Join(<<"\n">>, [k \in 1 .. Len(object_modules) |->
                                      object_modules[k] \o <<";">>])
      key_str == Join(<<"\n">>, [k \in 1 .. Len(key_modules) |->
                                   key_modules[k] \o <<";">>])
  IN <<"\n">> \o import_str
       \o <<"\nprojection(cut=true)\n{\n  translate([0, 0, -LAYER_HEIGHT-0.001])\n  {\n    difference()\n    {\n      union()\n      {\n        ">>
       \o object_str
       \o <<"\n      }\n      union()\n      {\n        ">>
       \o key_str
       \o <<"\n      }\n    }\n  }\n}\n">>

\* a template step that goes on to the dispatch when open() fails
_make_slice_file_unchecked(writable) ==
  /\ pc = "make_slice_file"
  /\ pc' = "build_jobs"
  /\ scad_file' = (IF writable
                   THEN Contents(scad_includes, scad_object_modules, scad_key_modules)
                   ELSE scad_file)
  /\ UNCHANGED <<driver, exc, ncalls, call, props, cfg_vars, _out_format, _processes,
                 _slices, dirs, out_files, pool_vars>>

\* _make_slice_file (src/slice.py:148-164); open() may fail (writable)
_make_slice_file(writable) ==
  /\ pc = "make_slice_file"
  /\ IF writable
     THEN /\ scad_file' = Contents(scad_includes, scad_object_modules, scad_key_modules)
          /\ pc' = "build_jobs"
          /\ UNCHANGED exc
     ELSE /\ pc' = "raised"
          /\ exc' = "IOError"
          /\ UNCHANGED scad_file
  /\ UNCHANGED <<driver, ncalls, call, props, cfg_vars, _out_format, _processes,
                 _slices, dirs, out_files, pool_vars>>

\* the whole output format as one token list
FormatTokens(fmt) ==
  IF fmt.dir = <<>> THEN fmt.name
  ELSE Join(<<"/">>, [k \in 1 .. Len(fmt.dir) |-> <<fmt.dir[k]>>]) \o <<"/">> \o fmt.name

RECURSIVE substitute(_, _)
\* string.Template(fmt).substitute(height=h) for a format free of unknown names
substitute(tokens, h) ==
  IF tokens = <<>> THEN <<>>
  ELSE (IF Head(tokens) = HeightToken THEN IntToStr(h)
        ELSE IF Head(tokens) = EscapeToken THEN <<"$">>
        ELSE <<Head(tokens)>>) \o substitute(Tail(tokens), h)

\* substitute raises KeyError for a name other than height
HasUnknownName(tokens) == \E k \in 1 .. Len(tokens) : tokens[k] = UnknownToken

\* jobs numbered by position instead of carrying the height
BuildJobsByIndex(fmt, heights) ==
  [k \in 1 .. Len(heights) |->
     [scad_file |-> scad_filename,
      height |-> k,
      output_file |-> substitute(FormatTokens(fmt), k),
      openscad |-> _openscad_command]]

\* the list comprehension of src/slice.py:127-128
BuildJobs(fmt, heights) ==
  [k \in 1 .. Len(heights) |->
     [scad_file |-> scad_filename,
      height |-> heights[k],
      output_file |-> substitute(FormatTokens(fmt), heights[k]),
      openscad |-> _openscad_command]]

\* a slice() that returns as soon as it finds no height to dispatch
build_jobs_early_return ==
  /\ pc = "build_jobs"
  /\ IF _slices = <<>>
     THEN /\ pc' = "done"
          /\ UNCHANGED <<exc, jobs, job_state, invoked>>
     ELSE IF HasUnknownName(FormatTokens(_out_format))
     THEN /\ pc' = "raised"
          /\ exc' = "KeyError"
          /\ UNCHANGED <<jobs, job_state, invoked>>
     ELSE /\ jobs' = BuildJobs(_out_format, _slices)
          /\ job_state' = [k \in 1 .. Len(_slices) |-> "pending"]
          /\ invoked' = [k \in 1 .. Len(_slices) |-> <<>>]
          /\ pc' = "pool"
          /\ UNCHANGED exc
  /\ UNCHANGED <<driver, ncalls, call, props, cfg_vars, _out_format, _processes,
                 _slices, fs_vars, taskqueue, worker, pool_size, pool_state,
                 map_result>>

build_jobs ==
  /\ pc = "build_jobs"
  /\ IF _slices # <<>> /\ HasUnknownName(FormatTokens(_out_format))
     THEN /\ pc' = "raised"
          /\ exc' = "KeyError"
          /\ UNCHANGED <<jobs, job_state, invoked>>
     ELSE /\ jobs' = BuildJobs(_out_format, _slices)
          /\ job_state' = [k \in 1 .. Len(_slices) |-> "pending"]
          /\ invoked' = [k \in 1 .. Len(_slices) |-> <<>>]
          /\ pc' = "pool"
          /\ UNCHANGED exc
  /\ UNCHANGED <<driver, ncalls, call, props, cfg_vars, _out_format, _processes,
                 _slices, fs_vars, taskqueue, worker, pool_size, pool_state,
                 map_result>>

(***************************************************************************)
(* multiprocessing.Pool(processes=P) and pool.map(execute_slice, jobs)     *)
(* (src/slice.py:130-131).                                                 *)
(***************************************************************************)
\* Pool.map's default chunk size: ceil(n / (4 * P)), 0 for an empty list
ChunkSize(n, procs) ==
  IF n = 0 THEN 0
  ELSE (n \div (procs * 4)) + (IF n % (procs * 4) # 0 THEN 1 ELSE 0)

\* the number of chunks of a MapResult
NumberLeft(n, size) ==
  IF size <= 0 THEN 0 ELSE (n \div size) + (IF n % size # 0 THEN 1 ELSE 0)

Min(a, b) == IF a < b THEN a ELSE b

\* Pool._get_tasks: the job indexes 1..n cut into consecutive chunks
Chunks(n, size) ==
  [c \in 1 .. NumberLeft(n, size) |->
     [k \in 1 .. (Min(c * size, n) - (c - 1) * size) |-> (c - 1) * size + k]]

\* a pool that starts a worker per job instead of _processes workers
pool_map_worker_per_job ==
  LET n == Len(jobs)
      size == ChunkSize(n, _processes)
  IN /\ pc = "pool"
     /\ pc' = "map"
     /\ pool_state' = "run"
     /\ worker' = {}
     /\ pool_size' = n
     /\ taskqueue' = Chunks(n, size)
     /\ map_result' = [state |-> (IF size <= 0 THEN "ready" ELSE "waiting"),
                       number_left |-> NumberLeft(n, size),
                       value |-> [j \in 1 .. n |-> None]]
     /\ UNCHANGED <<driver, exc, ncalls, call, props, cfg_vars, _out_format,
                    _processes, _slices, fs_vars, jobs, job_state, invoked>>

\* Pool(processes=...) starts the workers; map queues the chunks and waits
pool_map ==
  LET n == Len(jobs)
      size == ChunkSize(n, _processes)
  IN /\ pc = "pool"
     /\ pc' = "map"
     /\ pool_state' = "run"
     /\ worker' = {}
     /\ pool_size' = _processes
     /\ taskqueue' = Chunks(n, size)
     /\ map_result' = [state |-> (IF size <= 0 THEN "ready" ELSE "waiting"),
                       number_left |-> NumberLeft(n, size),
                       value |-> [j \in 1 .. n |-> None]]
     /\ UNCHANGED <<driver, exc, ncalls, call, props, cfg_vars, _out_format, _processes,
                    _slices, fs_vars, jobs, job_state, invoked>>

\* the argument list execute_slice gives to check_call (src/slice.py:48-56)
CommandLine(args) ==
  LET height_param == <<"-DLAYER_HEIGHT=">> \o IntToStr(args.height)
  IN <<args.openscad, height_param, <<"-o">>, args.output_file, args.scad_file>>

\* the chunks on which execute_slice can be called next: a chunk a worker
\* holds, or the head of the task queue when a worker is idle
Startable ==
  worker \cup (IF taskqueue # <<>> /\ Cardinality(worker) < pool_size
               THEN {Head(taskqueue)} ELSE {})

\* A worker process calls execute_slice on the next job of its chunk (task),
\* after taking the chunk from the task queue if it was idle, up to the start
\* of the renderer (src/slice.py:48-56).  check_call raises OSError when the
\* renderer cannot be launched; only CalledProcessError is caught, so the
\* exception leaves execute_slice, ends the worker's chunk and fails the
\* MapResult at once.
execute_slice_call(task, launched) ==
  /\ pool_state = "run"
  /\ task \in Startable
  /\ job_state[Head(task)] = "pending"
  /\ taskqueue' = (IF task \in worker THEN taskqueue ELSE Tail(taskqueue))
  /\ invoked' = [invoked EXCEPT ![Head(task)] = Append(@, CommandLine(jobs[Head(task)]))]
  /\ IF launched
     THEN /\ job_state' = [job_state EXCEPT ![Head(task)] = "running"]
          /\ worker' = worker \cup {task}
          /\ UNCHANGED map_result
     ELSE /\ job_state' = [job_state EXCEPT ![Head(task)] = "launch_failed"]
          /\ worker' = worker \ {task}
          /\ map_result' = (IF map_result.state = "waiting"
                            THEN [map_result EXCEPT !.state = "error",
                                                    !.value = "OSError"]
                            ELSE map_result)
  /\ UNCHANGED <<driver, pc, exc, ncalls, call, props, cfg_vars, _out_format,
                 _processes, _slices, fs_vars, jobs, pool_size, pool_state>>

\* the value execute_slice returns for a renderer that exited with success or
\* failed with a non-zero status (src/slice.py:51-60): no path has a return
\* statement
execute_slice_value(outcome) == None

\* the jobs of the chunk that holds job j
ChunkOf(j) ==
  LET size == ChunkSize(Len(jobs), _processes)
  IN {k \in 1 .. Len(jobs) : (k - 1) \div size = (j - 1) \div size}

\* the renderer exits and execute_slice returns (src/slice.py:53-60): exit
\* status 0 is logged as completed, a non-zero status raises
\* CalledProcessError, which is caught and logged.  The worker goes on with
\* its chunk (task) and reports the values of a finished chunk to the
\* MapResult.
execute_slice_return(task, status) ==
  /\ pool_state = "run"
  /\ task \in worker
  /\ job_state[Head(task)] = "running"
  /\ job_state' = [job_state EXCEPT ![Head(task)] =
                     IF status = 0 THEN "success" ELSE "failed"]
  /\ out_files' = (IF status = 0
                   THEN out_files \cup {jobs[Head(task)].output_file}
                   ELSE out_files)
  /\ worker' = (worker \ {task}) \cup (IF Tail(task) # <<>> THEN {Tail(task)} ELSE {})
  /\ map_result' =
       IF Tail(task) # <<>> THEN map_result
       ELSE IF map_result.state = "waiting"
       THEN [state |-> (IF map_result.number_left = 1 THEN "ready" ELSE "waiting"),
             number_left |-> map_result.number_left - 1,
             value |-> [j \in DOMAIN map_result.value |->
                          IF j \in ChunkOf(Head(task))
                          THEN execute_slice_value(job_state'[j])
                          ELSE map_result.value[j]]]
       ELSE map_result
  /\ UNCHANGED <<driver, pc, exc, ncalls, call, props, cfg_vars, _out_format,
                 _processes, _slices, dirs, scad_file, jobs, invoked, taskqueue,
                 pool_size, pool_state>>

\* map_async in place of map: the call returns without waiting
pool_map_return_async ==
  /\ pc = "map"
  /\ map_result.state \in {"waiting", "ready"}
  /\ pc' = "cleanup"
  /\ map_result' = [map_result EXCEPT !.state = "returned"]
  /\ UNCHANGED <<driver, exc, ncalls, call, props, cfg_vars, _out_format, _processes,
                 _slices, fs_vars, jobs, job_state, invoked, taskqueue, worker,
                 pool_size, pool_state>>

\* pool.map returns the results once every chunk has reported
pool_map_return ==
  /\ pc = "map"
  /\ map_result.state = "ready"
  /\ pc' = "cleanup"
  /\ map_result' = [map_result EXCEPT !.state = "returned"]
  /\ UNCHANGED <<driver, exc, ncalls, call, props, cfg_vars, _out_format, _processes,
                 _slices, fs_vars, jobs, job_state, invoked, taskqueue, worker,
                 pool_size, pool_state>>

\* pool.map re-raises the exception of the first chunk that failed
pool_map_raise ==
  /\ pc = "map"
  /\ map_result.state = "error"
  /\ pc' = "raised"
  /\ exc' = "OSError"
  /\ map_result' = [map_result EXCEPT !.state = "raised"]
  /\ UNCHANGED <<driver, ncalls, call, props, cfg_vars, _out_format, _processes,
                 _slices, fs_vars, jobs, job_state, invoked, taskqueue, worker,
                 pool_size, pool_state>>

\* the end of slice() (src/slice.py:133-135); os.remove may fail (removable)
remove_scad_file(removable) ==
  /\ pc = "cleanup"
  /\ IF keep_scad_file
     THEN /\ removable
          /\ pc' = "done"
          /\ UNCHANGED <<exc, scad_file>>
     ELSE IF removable /\ scad_file # NoFile
     THEN /\ scad_file' = NoFile
          /\ pc' = "done"
          /\ UNCHANGED exc
     ELSE /\ pc' = "raised"
          /\ exc' = "OSError"
          /\ UNCHANGED scad_file
  /\ UNCHANGED <<driver, ncalls, call, props, cfg_vars, _out_format, _processes,
                 _slices, dirs, out_files, pool_vars>>

\* the pool is never closed or joined: when the program ends, the pool's
\* finalizer terminates the worker processes; chunks not yet run are dropped
\* and a renderer that is running is left to itself
terminate_pool ==
  /\ pc \in {"done", "raised"}
  /\ pool_state = "run"
  /\ pool_state' = "terminated"
  /\ worker' = {}
  /\ taskqueue' = <<>>
  /\ UNCHANGED <<driver, pc, exc, ncalls, call, props, cfg_vars, _out_format, _processes,
                 _slices, fs_vars, jobs, job_state, invoked, pool_size, map_result>>

\* a renderer whose worker was terminated exits
renderer_exit(j, status) ==
  /\ pool_state = "terminated"
  /\ j \in DOMAIN job_state
  /\ job_state[j] = "running"
  /\ job_state' = [job_state EXCEPT ![j] = IF status = 0 THEN "success" ELSE "failed"]
  /\ out_files' = (IF status = 0 THEN out_files \cup {jobs[j].output_file}
                   ELSE out_files)
  /\ UNCHANGED <<driver, pc, exc, ncalls, call, props, cfg_vars, _out_format, _processes,
                 _slices, dirs, scad_file, jobs, invoked, taskqueue, worker,
                 pool_size, pool_state, map_result>>

(***************************************************************************)
(* Specifications.                                                         *)
(***************************************************************************)
ExitStatuses == {0, 1}

Configure ==
  \/ \E mc \in ModuleConfigs, keep \in BOOLEAN : set_attributes(mc, keep)

SetSlicesDispatch ==
  /\ pc = "config"
  /\ ncalls = 0
  /\ \E end \in DispatchEnds, step \in DispatchSteps, num \in DispatchNums :
       /\ set_slices(0, end, step, num, FALSE)
       /\ Len(_slices') <= MaxJobs

RunFromClDispatch ==
  /\ pc = "new"
  /\ \E mc \in ModuleConfigs, keep \in BOOLEAN, end \in ClEnds,
        step \in DispatchSteps \cup {Some(0)}, number \in DispatchNums,
        floats \in BOOLEAN :
       /\ run_from_cl(IF mc.obj = <<>> THEN None ELSE Some(mc.obj),
                      IF mc.key = <<>> THEN None ELSE Some(mc.key),
                      IF mc.inc = <<>> THEN None ELSE Some(mc.inc),
                      keep, 0, end, step, number, floats)
       /\ Len(_slices') <= MaxJobs

Dispatch ==
  \/ slice
  \/ \E created \in 0 .. Len(_out_format.dir) : _make_output_dir(created)
  \/ \E writable \in BOOLEAN : _make_slice_file(writable)
  \/ build_jobs
  \/ pool_map
  \/ \E task \in Startable, launched \in BOOLEAN : execute_slice_call(task, launched)
  \/ \E task \in worker, status \in ExitStatuses : execute_slice_return(task, status)
  \/ pool_map_return
  \/ pool_map_raise
  \/ \E removable \in BOOLEAN : remove_scad_file(removable)
  \/ terminate_pool
  \/ \E j \in 1 .. (MaxEnd + 1), status \in ExitStatuses : renderer_exit(j, status)

Next == Configure \/ SetSlicesDispatch \/ RunFromClDispatch \/ Dispatch

Spec == Init /\ [][Next]_vars

(***************************************************************************)
(* The height arithmetic on its own: set_slices and run_from_cl over all   *)
(* small arguments, on one file system and one output format.              *)
(***************************************************************************)
InitHeights ==
  /\ Init
  /\ _out_format = [dir |-> <<"out", "dxf">>, name |-> <<"slice_", HeightToken, ".dxf">>]
  /\ _processes = 1
  /\ dirs = {}
  /\ scad_file = NoFile

SetSlicesHeights ==
  /\ pc = "config"
  /\ \E start \in StartVals, end \in EndVals, step \in OptVals(StepVals),
        num \in OptVals(StepVals) :
       set_slices(start, end, step, num, FALSE)

RunFromClHeights ==
  /\ pc = "new"
  /\ \E mc \in ModuleConfigs, keep \in BOOLEAN, start \in StartVals, end \in EndVals,
        step \in OptVals(StepVals), number \in OptVals(StepVals), floats \in BOOLEAN :
       run_from_cl(IF mc.obj = <<>> THEN None ELSE Some(mc.obj),
                   IF mc.key = <<>> THEN None ELSE Some(mc.key),
                   IF mc.inc = <<>> THEN None ELSE Some(mc.inc),
                   keep, start, end, step, number, floats)

\* the script leaves the attributes at their defaults
ConfigureHeights == set_attributes([inc |-> <<>>, obj |-> <<>>, key |-> <<>>], FALSE)

NextHeights == ConfigureHeights \/ SetSlicesHeights \/ RunFromClHeights

SpecHeights == InitHeights /\ [][NextHeights]_vars

(***************************************************************************)
(* Properties of the height sequence.                                      *)
(***************************************************************************)
\* the heights start, start + step, ... that do not exceed end (step > 0)
StepSequence(start, end, step) ==
  [i \in 1 .. ((end - start) \div step) + 1 |-> start + (i - 1) * step]

StepForm == call.made /\ call.step # None /\ call.num = None /\ ~call.floats

CountForm == call.made /\ call.step = None /\ call.num # None /\ ~call.floats

\* C5: for integers start < end and step > 0, set_slices(start, end, step=step)
\* returns and stores exactly start, start+step, ... up to the last value
\* <= end: strictly increasing, first element start, no element above end,
\* and end itself is the last element when step divides end - start.
C5_StepHeights ==
  (StepForm /\ call.start < call.end /\ call.step[1] > 0) =>
     /\ call.raised = NoError
     /\ _slices = StepSequence(call.start, call.end, call.step[1])
     /\ _slices[1] = call.start
     /\ \A i \in 1 .. Len(_slices) : _slices[i] <= call.end
     /\ \A i \in 1 .. Len(_slices) - 1 : _slices[i] < _slices[i + 1]
     /\ _slices[Len(_slices)] + call.step[1] > call.end
     /\ ((call.end - call.start) % call.step[1] = 0 => _slices[Len(_slices)] = call.end)

\* a step that does not divide the range: the last height stays below end
C5_Witness ==
  /\ StepForm /\ call.start < call.end /\ call.step[1] > 0
  /\ (call.end - call.start) % call.step[1] # 0
  /\ Len(_slices) >= 2
  /\ _slices[Len(_slices)] < call.end

BothOrNeither(step, num) ==
  (step # None /\ num # None) \/ (step = None /\ num = None)

C7_CountHeights ==
  (CountForm /\ call.start < call.end /\ call.num[1] > 0) =>
     LET s == (call.end - call.start) \div call.num[1]
     IN IF s = 0
        THEN call.raised = "ValueError"
        ELSE /\ call.raised = NoError
             /\ _slices = StepSequence(call.start, call.end, s)
             /\ ((call.end - call.start) % call.num[1] = 0
                   => /\ Len(_slices) = call.num[1] + 1
                      /\ _slices[1] = call.start
                      /\ _slices[Len(_slices)] = call.end)

\* a count of at least 2 that divides the range
C7_Witness ==
  /\ CountForm /\ call.start < call.end /\ call.num[1] >= 2
  /\ (call.end - call.start) % call.num[1] = 0
  /\ call.raised = NoError
  /\ Len(_slices) = call.num[1] + 1

\* the step in effect of a call with exactly one of step and num (num # 0)
EffectiveStep ==
  IF call.step # None THEN call.step[1]
  ELSE IF call.num[1] > 0 THEN (call.end - call.start) \div call.num[1]
  ELSE (call.start - call.end) \div (0 - call.num[1])

\* C8 as claimed: set_slices fails whenever end <= start or the step in
\* effect is not positive.
C8_Original ==
  (/\ call.made /\ ~call.floats
   /\ ~BothOrNeither(call.step, call.num)
   /\ (call.num # None => call.num[1] # 0)
   /\ (call.end <= call.start \/ EffectiveStep <= 0))
    => call.raised # NoError

(***************************************************************************)
(* Properties of the dispatch.                                             *)
(***************************************************************************)
Jobs == DOMAIN job_state

Terminal(j) == job_state[j] \in {"success", "failed", "launch_failed"}

Unfinished(j) == job_state[j] \in {"pending", "running"}

RunningRenderers == {j \in Jobs : job_state[j] = "running"}

\* C1: at every instant the renderer processes started and not yet exited
\* are at most the configured worker count.
C1_BoundedRenderers == Cardinality(RunningRenderers) <= _processes

\* five jobs on two workers: two renderers run, the other jobs wait
C1_Witness ==
  /\ Len(jobs) >= 5
  /\ _processes = 2
  /\ Cardinality(RunningRenderers) = 2
  /\ Cardinality({j \in Jobs : job_state[j] = "pending"}) >= 3

\* C2 as claimed: whatever jobs fail, the dispatch step does not raise, and
\* every job has been started by the time the program ends.
C2_Original ==
  /\ map_result.state # "raised"
  /\ (pool_state = "terminated" => \A j \in Jobs : job_state[j] # "pending")

\* C3 as claimed: when the dispatch step ends, by returning or by raising, no
\* job is pending or running.
C3_Original ==
  map_result.state \in {"returned", "raised"} => \A j \in Jobs : Terminal(j)

\* C4: while a job is pending or running, the template file exists and holds
\* the text written by the template step.
C4_TemplatePresent ==
  (\E j \in Jobs : Unfinished(j)) =>
     /\ scad_file # NoFile
     /\ scad_file # StaleContents
     /\ scad_file = Contents(scad_includes, scad_object_modules, scad_key_modules)

\* the template is to be removed, one job is done, others run and wait
C4_Witness ==
  /\ ~keep_scad_file
  /\ scad_object_modules # <<>>
  /\ \E j \in Jobs : job_state[j] = "success"
  /\ \E j \in Jobs : job_state[j] = "running"
  /\ \E j \in Jobs : job_state[j] = "pending"
  /\ scad_file # NoFile

DigitValue(c) ==
  CASE c = "0" -> 0 [] c = "1" -> 1 [] c = "2" -> 2 [] c = "3" -> 3 [] c = "4" -> 4
    [] c = "5" -> 5 [] c = "6" -> 6 [] c = "7" -> 7 [] c = "8" -> 8 [] c = "9" -> 9

RECURSIVE DecimalValue(_)
\* the integer a digit string reads as
DecimalValue(str) ==
  IF str[1] = "-" THEN 0 - DecimalValue(Tail(str))
  ELSE IF Len(str) = 1 THEN DigitValue(str[1])
  ELSE 10 * DecimalValue(SubSeq(str, 1, Len(str) - 1)) + DigitValue(str[Len(str)])

\* path is the format with its height marker, if any, replaced by the digits
\* of h, and its escaped dollar by a dollar
IsSubstituted(path, tokens, h) ==
  IF \E m \in 1 .. Len(tokens) : tokens[m] = HeightToken
  THEN LET m == CHOOSE m \in 1 .. Len(tokens) : tokens[m] = HeightToken
           n == Len(path) - Len(tokens) + 1
       IN /\ n >= 1
          /\ SubSeq(path, 1, m - 1) = SubSeq(tokens, 1, m - 1)
          /\ SubSeq(path, m + n, Len(path)) = SubSeq(tokens, m + 1, Len(tokens))
          /\ DecimalValue(SubSeq(path, m, m + n - 1)) = h
  ELSE /\ Len(path) = Len(tokens)
       /\ \A k \in 1 .. Len(tokens) :
            path[k] = (IF tokens[k] = EscapeToken THEN "$" ELSE tokens[k])

JobsBuilt == pc = "pool" \/ pool_state # "none"

\* C9: slice() builds exactly one job per height and no other: job k carries
\* the k-th height, the output path is the output format with that height
\* substituted, and the renderer is given that height and that path; start 0,
\* end 10, step 5 gives the 3 jobs at heights 0, 5, 10.
C9_OneJobPerHeight ==
  JobsBuilt =>
     /\ Len(jobs) = Len(_slices)
     /\ \A k \in 1 .. Len(jobs) :
          /\ jobs[k].height = _slices[k]
          /\ jobs[k].scad_file = scad_filename
          /\ IsSubstituted(jobs[k].output_file, FormatTokens(_out_format), _slices[k])
          /\ \A i \in 1 .. Len(invoked[k]) :
               /\ invoked[k][i][2][1] = "-DLAYER_HEIGHT="
               /\ DecimalValue(Tail(invoked[k][i][2])) = _slices[k]
               /\ invoked[k][i][4] = jobs[k].output_file
               /\ invoked[k][i][5] = scad_filename
     /\ (StepForm /\ call.raised = NoError
           /\ call.start = 0 /\ call.end = 10 /\ call.step[1] = 5)
          => /\ [k \in 1 .. Len(jobs) |-> jobs[k].height] = <<0, 5, 10>>
             /\ (_out_format.name = <<"slice_", HeightToken, ".dxf">> /\ _out_format.dir # <<>>)
                  => {jobs[k].output_file : k \in 1 .. Len(jobs)} =
                       { <<"out", "/", "dxf", "/", "slice_", "0", ".dxf">>,
                         <<"out", "/", "dxf", "/", "slice_", "5", ".dxf">>,
                         <<"out", "/", "dxf", "/", "slice_", "1", "0", ".dxf">> }

\* start 0, end 10, step 5: three jobs have run and written three files
C9_Witness ==
  /\ StepForm /\ call.start = 0 /\ call.end = 10 /\ call.step[1] = 5
  /\ Len(jobs) = 3
  /\ \A j \in Jobs : job_state[j] = "success" /\ Len(invoked[j]) = 1
  /\ Cardinality(out_files) = 3

\* C10 as claimed: once the dispatch step has finished, by raising or with
\* slice() running to its end, the template file is absent if keep_scad_file
\* is false and present if it is true.
C10_Original ==
  (map_result.state = "raised" \/ pc = "done") =>
     /\ (keep_scad_file => scad_file # NoFile)
     /\ (~keep_scad_file => scad_file = NoFile)

(***************************************************************************)
(* Properties of the steps of slice().                                     *)
(***************************************************************************)
out_dir == _out_format.dir

NoModules == scad_object_modules = <<>> /\ scad_key_modules = <<>>

\* slice() has been entered
SliceEntered == pc \notin {"new", "config"} /\ ~(pc = "raised" /\ exc \in
                  {"NameError", "TypeError", "ValueError", "ZeroDivisionError",
                   "RuntimeError"})

TemplateText == Contents(scad_includes, scad_object_modules, scad_key_modules)

RendererInvoked == \E j \in DOMAIN invoked : invoked[j] # <<>>

\* C11 as claimed: when the object-module list and the key-module list are
\* both empty, slice() raises a configuration error before any file I/O: the
\* template is not written, no renderer is invoked and slice() does not run
\* to its end.
C11_Original ==
  (SliceEntered /\ NoModules) =>
     /\ scad_file # TemplateText
     /\ ~RendererInvoked
     /\ pc # "done"

\* the positions of slice() after the directory step
AfterDirectoryStep == {"make_slice_file", "build_jobs", "pool", "map", "cleanup", "done"}

\* the positions of slice() between the template step and the cleanup
TemplateInUse == {"build_jobs", "pool", "map", "cleanup"}

\* C12: slice() prepares the output directory, then writes the template,
\* then dispatches, then cleans up: past the directory step the directory
\* exists, from the template step to the cleanup the template holds the
\* composed text, the pool exists only after both, a renderer has been
\* invoked only if the directory exists and the template was written, and
\* the cleanup has run only after pool.map returned; when the directory step
\* or the template write fails, slice() raises OSError or IOError to the
\* caller, no pool was made and no renderer was invoked.
C12_StepOrder ==
  /\ pc \in AfterDirectoryStep => out_dir \in dirs
  /\ pc \in TemplateInUse => scad_file = TemplateText
  /\ pool_state # "none" => (out_dir \in dirs /\ pc \in {"map", "cleanup", "done", "raised"})
  /\ RendererInvoked =>
       /\ pool_state # "none"
       /\ out_dir \in dirs
       /\ \/ scad_file = TemplateText
          \/ (pc = "done" /\ ~keep_scad_file /\ scad_file = NoFile)
  /\ pc = "done" => map_result.state = "returned"
  /\ (SliceEntered /\ pc # "make_output_dir" /\ out_dir \notin dirs) =>
       (pc = "raised" /\ exc = "OSError" /\ pool_state = "none" /\ ~RendererInvoked)
  /\ (SliceEntered /\ pc = "raised" /\ pool_state = "none" /\ out_dir \in dirs) =>
       (exc \in {"IOError", "KeyError"} /\ ~RendererInvoked
          /\ (exc = "IOError" => scad_file # TemplateText))

\* heights are set, the directory was made, then the template write failed
C12_Witness ==
  /\ _slices # <<>>
  /\ pc = "raised" /\ exc = "IOError"
  /\ out_dir \in dirs
  /\ scad_file = StaleContents
  /\ pool_state = "none"
  /\ jobs = <<>>

\* C13 as claimed: no job is invoked twice, and when slice() has ended, by
\* returning or by raising out of the dispatch, every job has been invoked
\* exactly once.
C13_Original ==
  /\ \A j \in Jobs : Len(invoked[j]) <= 1
  /\ (pc \in {"done", "raised"} /\ pool_state # "none")
       => \A j \in Jobs : Len(invoked[j]) = 1

\* a result marked failed that carries a diagnostic
MarkedFailed(r) == r # None /\ ~r.success /\ r.diagnostic # <<>>

\* a result marked successful
MarkedSuccessful(r) == r # None /\ r.success

\* C14 as claimed: the list pool.map returns has one result per job, marked
\* failed with a non-empty diagnostic for a job whose renderer exited
\* non-zero and marked successful for a job whose renderer exited zero.
C14_Original ==
  map_result.state = "returned" =>
     /\ Len(map_result.value) = Len(jobs)
     /\ \A j \in Jobs :
          /\ job_state[j] = "failed" => MarkedFailed(map_result.value[j])
          /\ job_state[j] = "success" => MarkedSuccessful(map_result.value[j])

\* C15 as claimed: the jobs slice() builds have pairwise distinct output
\* paths, and no batch of two or more jobs is built from an output format
\* without the height marker.
C15_Original ==
  JobsBuilt =>
     /\ \A j, k \in 1 .. Len(jobs) :
          j # k => jobs[j].output_file # jobs[k].output_file
     /\ Len(jobs) >= 2 =>
          \E m \in 1 .. Len(_out_format.name) : _out_format.name[m] = HeightToken

\* the directory step has raised
DirectoryStepRaised ==
  SliceEntered /\ pc = "raised" /\ exc = "OSError" /\ pool_state = "none"

\* C16 as claimed: past the directory step the directory part of the output
\* format and every directory above it exist, and the step raises only where
\* the file system refuses to create a missing directory, never for a
\* directory part that is empty or exists already.
C16_Original ==
  /\ pc \in AfterDirectoryStep =>
       \A k \in 1 .. Len(out_dir) : Prefixes(out_dir)[k] \in dirs
  /\ DirectoryStepRaised => (out_dir # <<>> /\ out_dir \notin dirs)

\* C17 as claimed: once pool.map has returned, slice() runs to its end
\* without raising, whether or not the template file can be deleted.
C17_Original ==
  map_result.state = "returned" => pc \in {"cleanup", "done"}

\* C18 as claimed: a command line without an object module makes run_from_cl
\* write the usage message and leave through sys.exit(1), with no directory
\* made, no template written and no renderer invoked.
C18_Original ==
  (driver = "cli" /\ props.parsed /\ scad_object_modules = <<>>) =>
     /\ pc = "raised"
     /\ exc = "SystemExit"
     /\ scad_file # TemplateText
     /\ pool_state = "none"
     /\ ~RendererInvoked

(***************************************************************************)
(* Properties of the stored height sequence and of the run without         *)
(* heights.                                                                *)
(***************************************************************************)
\* the number of terms first, first + s, ... that stay on the near side of
\* stop (s # 0)
Terms(first, stop, s) ==
  IF s > 0
  THEN IF first < stop THEN ((stop - first - 1) \div s) + 1 ELSE 0
  ELSE IF first > stop THEN ((first - stop - 1) \div (0 - s)) + 1 ELSE 0

\* the arithmetic progression from first by s that stops before stop
Progression(first, stop, s) ==
  [i \in 1 .. Terms(first, stop, s) |-> first + (i - 1) * s]

\* the step a call of set_slices uses, 0 when it has none to use
CallStep(c) ==
  IF c.step # None /\ c.num = None THEN c.step[1]
  ELSE IF c.step = None /\ c.num # None /\ c.num[1] # 0
  THEN IF c.num[1] > 0 THEN (c.end - c.start) \div c.num[1]
       ELSE 0 - (((c.end - c.start) + (0 - c.num[1]) - 1) \div (0 - c.num[1]))
  ELSE 0

\* C19: a set_slices call that returns stores the heights of that call alone,
\* whatever was stored before; a call that raises (both step and num given,
\* neither given, a step of 0, a num of 0, a derived step of 0, a float start
\* or end) leaves the stored heights as they were.
C19_AllOrNothing ==
  [][ ncalls' = ncalls + 1 =>
        IF BothOrNeither(call'.step, call'.num) \/ call'.floats \/ CallStep(call') = 0
        THEN /\ call'.raised # NoError
             /\ exc' = call'.raised
             /\ _slices' = _slices
        ELSE /\ call'.raised = NoError
             /\ _slices' = Progression(call'.start, call'.end + 1, CallStep(call'))
    ]_vars

\* a second call with a step of 0 has raised and the heights of the first
\* call are still stored
C19_Witness ==
  /\ ncalls = 2
  /\ call.step = Some(0) /\ call.num = None
  /\ call.raised = "ValueError"
  /\ Len(_slices) >= 2

\* C20: a slice() that runs with no stored height invokes no renderer and
\* builds no job, and still goes through every step: past the directory step
\* the output directory exists, the template is written and stays until the
\* cleanup, the pool is made and pool.map of the empty list is ready at once
\* and returns (it never waits and never raises), and when slice() has run to
\* its end slice() has raised nothing and the template is removed unless
\* keep_scad_file is set; an output format is never the cause of an
\* exception, slice() raises only where a file or directory operation raises.
C20_EmptyRun ==
  (SliceEntered /\ _slices = <<>>) =>
     /\ ~RendererInvoked
     /\ jobs = <<>>
     /\ out_files = {}
     /\ pc \in AfterDirectoryStep => out_dir \in dirs
     /\ pc \in TemplateInUse => scad_file = TemplateText
     /\ pc \in {"map", "cleanup", "done"} =>
          /\ pool_state # "none"
          /\ pool_size = _processes
          /\ map_result.state \in {"ready", "returned"}
          /\ map_result.value = <<>>
     /\ pc = "done" =>
          /\ ncalls = 0 => exc = NoError
          /\ map_result.state = "returned"
          /\ out_dir \in dirs
          /\ scad_file = (IF keep_scad_file THEN TemplateText ELSE NoFile)
     /\ pc = "raised" => exc \in {"OSError", "IOError"}

\* a command line with --step 0 and no --number has run to the end of
\* slice(): no call of set_slices, no job, the template written and removed
C20_Witness ==
  /\ driver = "cli"
  /\ props.parsed /\ props.step = Some(0) /\ props.number = None
  /\ ncalls = 0
  /\ _slices = <<>>
  /\ pc = "done"
  /\ ~keep_scad_file
  /\ scad_file = NoFile
  /\ out_dir \in dirs
  /\ map_result.state = "returned"

====
